---- MODULE Spec2Model ----
(***************************************************************************)
(* Model of packages/blocks/src/page-block/default/mouse-manager.ts:       *)
(* PageSelection (the selection state) and DefaultMouseManager (the drag   *)
(* coordinator), with the collaborators of '../../__internal__' seen       *)
(* through the calls the handlers make on them.                            *)
(***************************************************************************)
EXTENDS Integers, Sequences, FiniteSets, TLC

\* ------------------------------------------------------------------ bounds
MaxCoord == 1

MaxOffset == 1

MaxMoves == 2

MaxDispose == 2

\* ------------------------------------------------------------------ values
\* null / undefined of the source
Null == [null |-> TRUE]

\* { x: e.raw.clientX, y: e.raw.clientY }: every clientX up to the bound, and
\* the lowest and the highest clientY.
Xs == 0..MaxCoord

Ys == {0, MaxCoord}

Points == [x : Xs, y : Ys]

\* A click is followed along its clientX, the coordinate its handler passes on.
ClickPoints == {pt \in Points : pt.y = 0}

\* The node a Range starts in, as far as the handlers look at it: a Text node
\* (rich text, no HTMLElement), an element whose className includes
\* 'affine-paragraph-block-container', one whose className includes
\* 'affine-group-block-container', an element with tagName GROUP-BLOCK, and
\* any other element.
Containers == {"Text", "ParagraphContainer", "GroupContainer", "GroupBlock", "OtherElement"}

Offsets == 0..MaxOffset

\* A DOM Range: start and end boundary points.
MkRange(sc, so, ec, eo) == [startContainer |-> sc, startOffset |-> so, endContainer |-> ec, endOffset |-> eo]

\* caretRangeFromPoint(x, y): a collapsed range at the hit position, or null.
CaretRange(c, o) == MkRange(c, o, c, o)

\* What the hit-test answers during a drag: a position in rich text, a position
\* in an element, or nothing.
DragHits == {CaretRange("Text", o) : o \in Offsets} \cup {CaretRange("ParagraphContainer", 0), Null}

\* What the hit-test answers to a click: a position in a node of each kind, or
\* nothing.
ClickHits == {CaretRange(c, 0) : c \in Containers} \cup {Null}

\* Whether a click lands on a blank area of the page: the three blank regions
\* are elements the hit-test can start in; where the hit-test finds no
\* position the click may have landed on a blank area or not.
ClickBlank(hit) ==
  IF hit = Null THEN BOOLEAN
  ELSE {hit.startContainer \in {"ParagraphContainer", "GroupContainer", "GroupBlock"}}

\* e.raw.target, as far as _onContainerClick looks at it.
Targets == {"DEBUG-MENU", "INPUT", "OTHER"}

\* store.root: undefined, or a root whose lastChild() is null or a model with a flavour.
Flavours == {"paragraph", "list", "group"}

LastChildren == {Null} \cup {[flavour |-> f] : f \in Flavours}

Roots == {Null} \cup {[lastChild |-> c] : c \in LastChildren}

\* A SelectionEvent together with what the DOM answers about it during the
\* handler: hit = caretRangeFromPoint(clientX, clientY), blank = the computed
\* cursor style of the target is 'default', anchorAfter = the drag's anchor
\* position lies after the hit position in document order.
MkEvent(p, hit, blank, target, shift, anchorAfter) == [p |-> p, hit |-> hit, blank |-> blank, target |-> target, shift |-> shift, anchorAfter |-> anchorAfter]

NoEvent == MkEvent(Null, Null, FALSE, "OTHER", FALSE, FALSE)

\* PageSelection: type, startRange, startPoint. The disposer: disposeCalls.
\* The last callback: last (which, the mode it found, its event), effects,
\* fault, captures. The gesture in progress or just over: dragging (a drag
\* was started and not ended), drag (how its start was classified),
\* dragStart (its start point), nMoves, rectLog (what was
\* emitted on the rectangle-update channel since it began); lastRect (whether
\* the most recent value on that channel was a rectangle, null, or there was
\* none yet).
VARIABLES type, startRange, startPoint, disposeCalls, effects, fault, captures, last, dragging, drag, dragStart, nMoves, rectLog, lastRect

vars == <<type, startRange, startPoint, disposeCalls, effects, fault, captures, last, dragging, drag, dragStart, nMoves, rectLog, lastRect>>

\* ------------------------------------------------------------------ pure functions
isBlankAreaBetweenBlocks(startContainer) == startContainer = "ParagraphContainer"

isBlankAreaAfterLastBlock(startContainer) == startContainer = "GroupBlock"

isBlankAreaBeforeFirstBlock(startContainer) == startContainer = "GroupContainer"

isBlankArea(e) == e.blank

Abs(n) == IF n < 0 THEN 0 - n ELSE n

Min(a, b) == IF a < b THEN a ELSE b

\* createSelectionRect with Math.abs forgotten on the width.
createSelectionRect_NoAbs(current, start) ==
  LET width == current.x - start.x
      height == Abs(current.y - start.y)
      left == Min(current.x, start.x)
      top == Min(current.y, start.y)
  IN [left |-> left, top |-> top, width |-> width, height |-> height]

createSelectionRect(current, start) ==
  LET width == Abs(current.x - start.x)
      height == Abs(current.y - start.y)
      left == Min(current.x, start.x)
      top == Min(current.y, start.y)
  IN [left |-> left, top |-> top, width |-> width, height |-> height]

\* Range.setStart(node, offset) of the DOM: the start becomes (node, offset);
\* when that point lies after the range's end, the end is moved to it too.
\* In one node the offsets decide the order, across nodes the document does.
IsAfter(c, o, range, anchorAfter) == IF c = range.endContainer THEN o > range.endOffset ELSE anchorAfter

setStart(range, c, o, anchorAfter) ==
  IF IsAfter(c, o, range, anchorAfter)
  THEN MkRange(c, o, c, o)
  ELSE MkRange(c, o, range.endContainer, range.endOffset)

\* ------------------------------------------------------------------ handler context
\* The fields of PageSelection while a handler runs, with what the handler
\* has done so far: its calls on the collaborators (effects), whether it
\* threw (fault), one entry per resetStartRange call telling whether the
\* anchor was still set when it ran (captures), and whether it called
\* caretRangeFromPoint (asked).
Ctx == [type |-> type, startRange |-> startRange, startPoint |-> startPoint, effects |-> <<>>, fault |-> FALSE, captures |-> <<>>, asked |-> FALSE]

Effect(s, kind, val) == [s EXCEPT !.effects = Append(@, [kind |-> kind, val |-> val])]

Throw(s) == [s EXCEPT !.fault = TRUE]

\* caretRangeFromPoint(e.raw.clientX, e.raw.clientY): the call; its value is e.hit.
caretRangeFromPoint(s, e) == [s EXCEPT !.asked = TRUE]

resetNativeSeletion(s, range) == Effect(s, "select", range)

emitUpdateSelectionRect(s, rect) == Effect(s, "rect", rect)

focusRichTextByOffset(s, element, x) == Effect(s, "focus", [element |-> element, x |-> x])

getBlockElementByModel(model) == [block |-> model.flavour]

\* ------------------------------------------------------------------ PageSelection
\* resetStartRange asserting that no anchor is held, instead of overwriting it.
resetStartRange_Asserting(s, e) ==
  IF s.startPoint # Null
  THEN Throw([s EXCEPT !.captures = Append(@, TRUE)])
  ELSE [caretRangeFromPoint(s, e) EXCEPT !.startRange = e.hit, !.startPoint = e.p, !.captures = Append(@, FALSE)]

\* resetStartRange recording the point and leaving the range as it was.
resetStartRange_PointOnly(s, e) == [caretRangeFromPoint(s, e) EXCEPT !.startPoint = e.p, !.captures = Append(@, s.startPoint # Null)]

resetStartRange(s, e) == [caretRangeFromPoint(s, e) EXCEPT !.startRange = e.hit, !.startPoint = e.p, !.captures = Append(@, s.startPoint # Null)]

clear(s) == [s EXCEPT !.startRange = Null, !.startPoint = Null]

setType(s, t) == [s EXCEPT !.type = t]

\* ------------------------------------------------------------------ DefaultMouseManager
onBlockDragStart(s, e) == resetNativeSeletion(resetStartRange(setType(s, "block"), e), Null)

\* _onBlockDragMove keeping incremental state: the anchor follows the pointer.
onBlockDragMove_Incremental(s, e) ==
  IF s.startPoint = Null
  THEN Throw(s)
  ELSE [emitUpdateSelectionRect(s, createSelectionRect(e.p, s.startPoint)) EXCEPT !.startPoint = e.p]

onBlockDragMove(s, e) ==
  IF s.startPoint = Null
  THEN Throw(s)
  ELSE emitUpdateSelectionRect(s, createSelectionRect(e.p, s.startPoint))

\* _onBlockDragEnd clearing the anchors without emitting the null rectangle.
onBlockDragEnd_NoEmit(s, e) == clear(s)

onBlockDragEnd(s, e) == emitUpdateSelectionRect(clear(s), Null)

onNativeDragStart(s, e) == setType(s, "native")

\* _onNativeDragMove keeping the range it applied as the new anchor range.
onNativeDragMove_Reanchors(s, e) ==
  IF s.startRange = Null
  THEN Throw(s)
  ELSE LET s1 == caretRangeFromPoint(s, e)
           currentRange == e.hit
       IN IF currentRange = Null
          THEN resetNativeSeletion(s1, Null)
          ELSE [resetNativeSeletion(s1, setStart(currentRange, s.startRange.startContainer, s.startRange.startOffset, e.anchorAfter))
                  EXCEPT !.startRange = currentRange]

onNativeDragMove(s, e) ==
  IF s.startRange = Null
  THEN Throw(s)
  ELSE LET s1 == caretRangeFromPoint(s, e)
           currentRange == e.hit
       IN IF currentRange = Null
          THEN resetNativeSeletion(s1, Null)
          ELSE resetNativeSeletion(s1, setStart(currentRange, s.startRange.startContainer, s.startRange.startOffset, e.anchorAfter))

onNativeDragEnd(s, e) == s

\* _onContainerDragStart with the two branches of the classification swapped.
onContainerDragStart_Swapped(s, e) ==
  LET s1 == resetStartRange(s, e)
  IN IF isBlankArea(e) THEN onNativeDragStart(s1, e) ELSE onBlockDragStart(s1, e)

onContainerDragStart(s, e) ==
  LET s1 == resetStartRange(s, e)
  IN IF isBlankArea(e) THEN onBlockDragStart(s1, e) ELSE onNativeDragStart(s1, e)

\* _onContainerDragMove guarding the move with assertExists in every mode.
onContainerDragMove_Strict(s, e) ==
  IF s.type = "native" THEN onNativeDragMove(s, e)
  ELSE onBlockDragMove(s, e)

\* _onContainerDragMove routing every drag to the block handler.
onContainerDragMove_AlwaysBlock(s, e) ==
  IF s.type = "native" THEN onBlockDragMove(s, e)
  ELSE IF s.type = "block" THEN onBlockDragMove(s, e)
  ELSE s

onContainerDragMove(s, e) ==
  IF s.type = "native" THEN onNativeDragMove(s, e)
  ELSE IF s.type = "block" THEN onBlockDragMove(s, e)
  ELSE s

\* _onContainerDragEnd without its final clear(): only the block handler clears.
onContainerDragEnd_NoClear(s, e) ==
  LET s1 == IF s.type = "native" THEN onNativeDragEnd(s, e)
            ELSE IF s.type = "block" THEN onBlockDragEnd(s, e)
            ELSE s
  IN setType(s1, "none")

\* _onContainerDragEnd clearing the anchors and leaving the mode as it was.
onContainerDragEnd_KeepsMode(s, e) ==
  LET s1 == IF s.type = "native" THEN onNativeDragEnd(s, e)
            ELSE IF s.type = "block" THEN onBlockDragEnd(s, e)
            ELSE s
  IN clear(s1)

onContainerDragEnd(s, e) ==
  LET s1 == IF s.type = "native" THEN onNativeDragEnd(s, e)
            ELSE IF s.type = "block" THEN onBlockDragEnd(s, e)
            ELSE s
  IN clear(setType(s1, "none"))

\* The classification of _onContainerClick with the between-blocks test left out.
clickResolve_NoBetweenBlocks(s, e, root) ==
  LET s0 == caretRangeFromPoint(s, e)
      range == e.hit
      s1 == IF range # Null THEN resetNativeSeletion(s0, range) ELSE s0
  IN IF range = Null \/ range.startContainer = "Text" THEN s1
     ELSE LET startContainer == range.startContainer
          IN IF isBlankAreaBeforeFirstBlock(startContainer)
             THEN focusRichTextByOffset(s1, startContainer, e.p.x)
             ELSE IF isBlankAreaAfterLastBlock(startContainer)
             THEN LET lastChild == IF root = Null THEN Null ELSE root.lastChild
                  IN IF lastChild # Null /\ lastChild.flavour \in {"paragraph", "list"}
                     THEN focusRichTextByOffset(s1, getBlockElementByModel(lastChild), e.p.x)
                     ELSE s1
             ELSE s1

\* The classification of _onContainerClick focusing a last child of flavour
\* 'paragraph' only.
clickResolve_OnlyParagraph(s, e, root) ==
  LET s0 == caretRangeFromPoint(s, e)
      range == e.hit
      s1 == IF range # Null THEN resetNativeSeletion(s0, range) ELSE s0
  IN IF range = Null \/ range.startContainer = "Text" THEN s1
     ELSE LET startContainer == range.startContainer
          IN IF isBlankAreaBetweenBlocks(startContainer) \/ isBlankAreaBeforeFirstBlock(startContainer)
             THEN focusRichTextByOffset(s1, startContainer, e.p.x)
             ELSE IF isBlankAreaAfterLastBlock(startContainer)
             THEN LET lastChild == IF root = Null THEN Null ELSE root.lastChild
                  IN IF lastChild # Null /\ lastChild.flavour = "paragraph"
                     THEN focusRichTextByOffset(s1, getBlockElementByModel(lastChild), e.p.x)
                     ELSE s1
             ELSE s1

\* The part of _onContainerClick after the three early returns.
clickResolve(s, e, root) ==
  LET s0 == caretRangeFromPoint(s, e)
      range == e.hit
      s1 == IF range # Null THEN resetNativeSeletion(s0, range) ELSE s0
  IN IF range = Null \/ range.startContainer = "Text" THEN s1
     ELSE LET startContainer == range.startContainer
          IN IF isBlankAreaBetweenBlocks(startContainer) \/ isBlankAreaBeforeFirstBlock(startContainer)
             THEN focusRichTextByOffset(s1, startContainer, e.p.x)
             ELSE IF isBlankAreaAfterLastBlock(startContainer)
             THEN LET lastChild == IF root = Null THEN Null ELSE root.lastChild
                  IN IF lastChild # Null /\ lastChild.flavour \in {"paragraph", "list"}
                     THEN focusRichTextByOffset(s1, getBlockElementByModel(lastChild), e.p.x)
                     ELSE s1
             ELSE s1

\* _onContainerClick returning on the debug menu before it resets the mode.
onContainerClick_ReturnBeforeReset(s, e, root) ==
  IF e.target = "DEBUG-MENU" THEN s
  ELSE LET s0 == setType(s, "none")
       IN IF e.target = "INPUT" THEN s0
          ELSE IF e.shift THEN s0
          ELSE clickResolve(s0, e, root)

\* _onContainerClick without the early return on the shift modifier.
onContainerClick_NoShiftReturn(s, e, root) ==
  LET s0 == setType(s, "none")
  IN IF e.target = "DEBUG-MENU" THEN s0
     ELSE IF e.target = "INPUT" THEN s0
     ELSE clickResolve(s0, e, root)

onContainerClick(s, e, root) ==
  LET s0 == setType(s, "none")
  IN IF e.target = "DEBUG-MENU" THEN s0
     ELSE IF e.target = "INPUT" THEN s0
     ELSE IF e.shift THEN s0
     ELSE clickResolve(s0, e, root)

onContainerDblClick(s, e) == s

onContainerMouseMove(s, e) == s

\* _onContainerMouseOut ending the drag when the pointer leaves the container.
onContainerMouseOut_EndsDrag(s, e) == onContainerDragEnd(s, e)

onContainerMouseOut(s, e) == s

\* ------------------------------------------------------------------ the state machine
\* The values a handler emitted on the rectangle-update channel, in order.
RectsOf(s) == LET f[i \in 0..Len(s.effects)] ==
                    IF i = 0 THEN <<>>
                    ELSE IF s.effects[i].kind = "rect" THEN Append(f[i - 1], s.effects[i].val) ELSE f[i - 1]
              IN f[Len(s.effects)]

\* The event as the handler saw it: what the DOM and the store would have
\* answered is kept only when the handler asked.
Seen(s, e) == IF s.asked THEN e ELSE [e EXCEPT !.hit = Null, !.blank = FALSE, !.anchorAfter = FALSE]

\* A handler has run to its end or to its throw: its writes to PageSelection
\* stay, and what it did is recorded. A drag start and a click begin a new
\* gesture.
Commit(s, op, e, root) ==
  /\ type' = s.type
  /\ startRange' = s.startRange
  /\ startPoint' = s.startPoint
  /\ effects' = s.effects
  /\ fault' = s.fault
  /\ captures' = s.captures
  /\ last' = [op |-> op, mode |-> type, anchored |-> startPoint # Null, asked |-> s.asked, e |-> Seen(s, e), root |-> IF s.asked THEN root ELSE Null]
  /\ lastRect' = IF RectsOf(s) = <<>> THEN lastRect
                 ELSE IF RectsOf(s)[Len(RectsOf(s))] = Null THEN "null" ELSE "rect"
  /\ rectLog' = IF op \in {"dragStart", "click"} THEN RectsOf(s) ELSE rectLog \o RectsOf(s)
  /\ UNCHANGED disposeCalls

Init ==
  /\ type = "none"
  /\ startRange = Null
  /\ startPoint = Null
  /\ disposeCalls = 0
  /\ effects = <<>>
  /\ fault = FALSE
  /\ captures = <<>>
  /\ last = [op |-> "new", mode |-> "none", anchored |-> FALSE, asked |-> FALSE, e |-> NoEvent, root |-> Null]
  /\ dragging = FALSE
  /\ drag = "none"
  /\ dragStart = Null
  /\ nMoves = 0
  /\ rectLog = <<>>
  /\ lastRect = "never"

\* The input subscription delivers callbacks until it is released.
Subscribed == disposeCalls = 0

DragStart ==
  /\ Subscribed
  /\ \E p \in Points, hit \in DragHits, blank \in BOOLEAN :
       LET e == MkEvent(p, hit, blank, "OTHER", FALSE, FALSE)
       IN /\ Commit(onContainerDragStart(Ctx, e), "dragStart", e, Null)
          /\ dragging' = TRUE
          /\ drag' = IF blank THEN "blank" ELSE "content"
          /\ dragStart' = p
          /\ nMoves' = 0

\* The document orders the anchor and the hit position when they lie in two
\* nodes.
DragMove ==
  /\ Subscribed
  /\ nMoves < MaxMoves
  /\ \E p \in Points, hit \in DragHits :
         \E anchorAfter \in (IF hit # Null /\ startRange # Null /\ hit.endContainer # startRange.startContainer THEN BOOLEAN ELSE {FALSE}) :
           LET e == MkEvent(p, hit, FALSE, "OTHER", FALSE, anchorAfter)
           IN /\ Commit(onContainerDragMove(Ctx, e), "dragMove", e, Null)
              /\ nMoves' = nMoves + 1
              /\ UNCHANGED <<dragging, drag, dragStart>>

DragEnd ==
  /\ Subscribed
  /\ Commit(onContainerDragEnd(Ctx, NoEvent), "dragEnd", NoEvent, Null)
  /\ dragging' = FALSE
  /\ UNCHANGED <<drag, dragStart, nMoves>>

\* The store matters only for a hit in the GROUP-BLOCK element.
Click ==
  /\ Subscribed
  /\ \E p \in ClickPoints, target \in Targets, shift \in BOOLEAN, hit \in ClickHits :
         \E root \in (IF hit # Null /\ hit.startContainer = "GroupBlock" THEN Roots ELSE {Null}),
            blank \in ClickBlank(hit) :
           LET e == MkEvent(p, hit, blank, target, shift, FALSE)
           IN /\ Commit(onContainerClick(Ctx, e, root), "click", e, root)
              /\ dragging' = FALSE
              /\ drag' = "none"
              /\ dragStart' = Null
              /\ nMoves' = 0

DblClick ==
  /\ Subscribed
  /\ Commit(onContainerDblClick(Ctx, NoEvent), "dblClick", NoEvent, Null)
  /\ UNCHANGED <<dragging, drag, dragStart, nMoves>>

MouseMove ==
  /\ Subscribed
  /\ Commit(onContainerMouseMove(Ctx, NoEvent), "mouseMove", NoEvent, Null)
  /\ UNCHANGED <<dragging, drag, dragStart, nMoves>>

MouseOut ==
  /\ Subscribed
  /\ Commit(onContainerMouseOut(Ctx, NoEvent), "mouseOut", NoEvent, Null)
  /\ UNCHANGED <<dragging, drag, dragStart, nMoves>>

\* dispose(): calls the disposer initMouseEventHandlers returned.
Dispose ==
  /\ disposeCalls < MaxDispose
  /\ disposeCalls' = disposeCalls + 1
  /\ effects' = <<>>
  /\ fault' = FALSE
  /\ captures' = <<>>
  /\ last' = [op |-> "dispose", mode |-> type, anchored |-> startPoint # Null, asked |-> FALSE, e |-> NoEvent, root |-> Null]
  /\ UNCHANGED <<type, startRange, startPoint, dragging, drag, dragStart, nMoves, rectLog, lastRect>>

\* Any callback in any order.
Next == DragStart \/ DragMove \/ DragEnd \/ Click \/ DblClick \/ MouseMove \/ MouseOut \/ Dispose

Spec == Init /\ [][Next]_vars

\* The drag protocol of the input source: start, moves, end; clicks and
\* double clicks only between drags.
ProtoDragStart == ~dragging /\ DragStart

ProtoDragMove == dragging /\ DragMove

ProtoDragEnd == dragging /\ DragEnd

ProtoClick == ~dragging /\ Click

ProtoDblClick == ~dragging /\ DblClick

ProtoNext == ProtoDragStart \/ ProtoDragMove \/ ProtoDragEnd \/ ProtoClick \/ ProtoDblClick \/ MouseMove \/ MouseOut \/ Dispose

ProtoSpec == Init /\ [][ProtoNext]_vars

\* The drag protocol with the end of every drag delivered: the input source
\* sends the end of a gesture for as long as the coordinator is subscribed.
FairSpec == Init /\ [][ProtoNext]_vars /\ WF_vars(ProtoDragEnd)

\* ------------------------------------------------------------------ claims
DragOps == {"dragStart", "dragMove", "dragEnd"}

KindsOf(kind) == {i \in 1..Len(effects) : effects[i].kind = kind}

\* C1: under the drag protocol the mode is none whenever no drag is in
\* progress (before the first start, after every end), and during a drag it is
\* block when the start was classified blank and native otherwise; a move
\* leaves the mode as it found it.
C1_ModeFixedAtStart ==
  /\ ~dragging => type = "none"
  /\ (dragging /\ drag = "blank") => type = "block"
  /\ (dragging /\ drag = "content") => type = "native"
  /\ last.op = "dragMove" => type = last.mode

C1_Witness == dragging /\ drag = "blank" /\ type = "block" /\ last.op = "dragMove" /\ nMoves = 2

\* C2: from the start of a drag to its end, a drag classified content puts
\* nothing on the rectangle-update channel, and a drag classified blank
\* applies no text range other than null as the native selection.
C2_OneChannelPerDrag ==
  /\ drag = "content" => (rectLog = <<>> /\ KindsOf("rect") = {})
  /\ drag = "blank" => \A i \in KindsOf("select") : effects[i].val = Null

C2_Witness == drag = "content" /\ ~dragging /\ last.op = "dragEnd" /\ nMoves = 2 /\ lastRect = "null"

\* C3: the rectangle a block move emits for the anchor P0 and the current
\* point P1 has left = min of the xs, top = min of the ys, width and height the
\* absolute differences, never negative, and is the same for (P0, P1) swapped.
C3_RectOfTwoPoints ==
  (last.op = "dragMove" /\ last.mode = "block" /\ ~fault) =>
    LET P0 == startPoint
        P1 == last.e.p
        r == effects[1].val
    IN /\ Len(effects) = 1 /\ effects[1].kind = "rect"
       /\ r.left = (IF P0.x < P1.x THEN P0.x ELSE P1.x)
       /\ r.top = (IF P0.y < P1.y THEN P0.y ELSE P1.y)
       /\ r.width = (IF P1.x >= P0.x THEN P1.x - P0.x ELSE P0.x - P1.x)
       /\ r.height = (IF P1.y >= P0.y THEN P1.y - P0.y ELSE P0.y - P1.y)
       /\ r.width >= 0 /\ r.height >= 0
       /\ createSelectionRect(P0, P1) = r

C3_Witness == last.op = "dragMove" /\ last.mode = "block" /\ ~fault /\ last.e.p.x < startPoint.x /\ last.e.p.y < startPoint.y /\ effects # <<>>

\* C4: in a drag classified blank with start point P0, the rectangle-update
\* channel carries nothing at the start, after the i-th move exactly i
\* rectangles, the i-th being the one of (Pi, P0), and after the end those
\* rectangles followed by exactly one null; what was emitted stays as emitted.
C4_State ==
  drag = "blank" =>
    /\ last.op = "dragStart" => rectLog = <<>>
    /\ dragging => (Len(rectLog) = nMoves /\ \A i \in 1..nMoves : rectLog[i] # Null)
    /\ last.op = "dragMove" => rectLog[nMoves] = createSelectionRect(last.e.p, dragStart)
    /\ ~dragging => /\ Len(rectLog) = nMoves + 1
                    /\ rectLog[nMoves + 1] = Null
                    /\ \A i \in 1..nMoves : rectLog[i] # Null

C4_Step ==
  (drag' = "blank" /\ last'.op # "dragStart") => (Len(rectLog') >= Len(rectLog) /\ SubSeq(rectLog', 1, Len(rectLog)) = rectLog)

C4_BlockDragEmissions == [](C4_State) /\ [][C4_Step]_vars

C4_Witness == drag = "blank" /\ ~dragging /\ last.op = "dragEnd" /\ nMoves = 2 /\ rectLog[1] # rectLog[2]

\* C5: after any onDragEnd, whatever the mode was when it was called, the
\* mode is none and both anchors are null.
C5_EndResetsAll == last.op = "dragEnd" => (type = "none" /\ startRange = Null /\ startPoint = Null)

C5_Witness == last.op = "dragEnd" /\ last.mode = "native" /\ last.anchored /\ startPoint = Null

\* C6: in every reachable state, whatever the order of the callbacks, mode
\* none implies that both anchors are null.
C6_NoneImpliesNoAnchors == type = "none" => (startRange = Null /\ startPoint = Null)

\* C7 as claimed: a capture of the anchor while an anchor is still held makes
\* the callback fail, and no onDragStart captures twice.
C7_DoubleCaptureFaults ==
  /\ (\E i \in 1..Len(captures) : captures[i]) => fault
  /\ last.op = "dragStart" => Len(captures) <= 1

\* C7 as amended: no capture ever fails; a capture while an anchor is held
\* overwrites it. An onDragStart classified blank captures twice, the second
\* time over the anchor the first just set, one classified content captures
\* once, and either leaves the anchors of its own event.
C7_CaptureOverwrites ==
  /\ captures # <<>> => (last.op = "dragStart" /\ ~fault)
  /\ last.op = "dragStart" =>
       /\ startPoint = last.e.p /\ startRange = last.e.hit
       /\ captures[1] = last.anchored
       /\ Len(captures) = (IF last.e.blank THEN 2 ELSE 1)
       /\ last.e.blank => captures[2]

C7_Witness == last.op = "dragStart" /\ last.e.blank /\ captures = <<TRUE, TRUE>> /\ ~fault /\ startPoint = last.e.p

\* C8 as claimed: an onDragMove or onDragEnd arriving in mode none with no
\* anchor fails.
C8_StrayMoveOrEndFaults == (last.op \in {"dragMove", "dragEnd"} /\ last.mode = "none" /\ ~last.anchored) => fault

\* C8 as amended: an onDragMove or onDragEnd arriving in mode none with no
\* anchor is accepted silently: no fault, no call on a collaborator, and the
\* mode stays none with both anchors null.
C8_StrayMoveOrEndIgnored ==
  (last.op \in {"dragMove", "dragEnd"} /\ last.mode = "none" /\ ~last.anchored) =>
    (~fault /\ effects = <<>> /\ type = "none" /\ startRange = Null /\ startPoint = Null)

C8_Witness == last.op = "dragMove" /\ last.mode = "none" /\ ~last.anchored /\ ~dragging /\ effects = <<>>

\* C9: under the drag protocol no callback fails, whatever the hit-test
\* answers at the start, at a move or at a click.
C9_NoFault == ~fault

\* C10 as claimed: a click with the shift modifier changes neither the mode
\* nor the anchors and calls no collaborator.
C10_ShiftClickStep ==
  (last'.op = "click" /\ last'.e.shift) =>
    (type' = type /\ startRange' = startRange /\ startPoint' = startPoint /\ effects' = <<>> /\ lastRect' = lastRect /\ ~last'.asked)

C10_ShiftClickChangesNothing == [][C10_ShiftClickStep]_vars

\* C10 as amended: a click with the shift modifier leaves the anchors as they
\* were and calls no collaborator (no selection applied, no caret placed, no
\* hit-test, nothing on the rectangle channel), and leaves the mode none: it
\* keeps the mode only when the mode was none already.
C10_ShiftClickAmendedStep ==
  (last'.op = "click" /\ last'.e.shift) =>
    /\ type' = "none"
    /\ type = "none" => type' = type
    /\ startRange' = startRange /\ startPoint' = startPoint
    /\ effects' = <<>> /\ ~fault' /\ lastRect' = lastRect /\ ~last'.asked

C10_ShiftClickResetsModeOnly == [][C10_ShiftClickAmendedStep]_vars

C10_Witness == last.op = "click" /\ last.e.shift /\ last.e.target = "OTHER" /\ last.mode = "native" /\ type = "none" /\ startPoint # Null

\* C11: every onClick leaves the mode none, whatever it was and whether or
\* not the click is ignored; no click changes the anchors or puts anything on
\* the rectangle-update channel; a click on the debug menu or on a form input
\* calls no collaborator at all.
C11_ClickStep ==
  last'.op = "click" =>
    /\ type' = "none"
    /\ startRange' = startRange /\ startPoint' = startPoint
    /\ \A i \in 1..Len(effects') : effects'[i].kind # "rect"
    /\ lastRect' = lastRect
    /\ last'.e.target \in {"DEBUG-MENU", "INPUT"} => (effects' = <<>> /\ ~last'.asked)

C11_ClickResetsMode == [][C11_ClickStep]_vars

C11_Witness == last.op = "click" /\ last.e.target = "DEBUG-MENU" /\ last.mode = "block" /\ type = "none" /\ startPoint # Null /\ lastRect = "rect"

\* A click the handler does not ignore: it reached the hit-test.
ResolvedClick == last.op = "click" /\ last.asked

AfterLastClick ==
  ResolvedClick /\ last.e.hit # Null /\ isBlankAreaAfterLastBlock(last.e.hit.startContainer)

\* C13: a non-ignored click classified after-last-block places a caret in the
\* rendered element of the document's last top-level node, at the click's
\* clientX, exactly when the root exists, has a last child, and that child's
\* flavour is paragraph or list; in every other case it places no caret and
\* raises no fault.
C13_AfterLastBlockCaret ==
  AfterLastClick =>
    LET root == last.root
        lastChild == IF root = Null THEN Null ELSE root.lastChild
        focusable == lastChild # Null /\ lastChild.flavour \in {"paragraph", "list"}
    IN /\ ~fault
       /\ focusable =>
            /\ Cardinality(KindsOf("focus")) = 1
            /\ effects[Len(effects)] =
                 [kind |-> "focus", val |-> [element |-> getBlockElementByModel(lastChild), x |-> last.e.p.x]]
       /\ ~focusable => KindsOf("focus") = {}

C13_Witness ==
  /\ AfterLastClick
  /\ last.root # Null /\ last.root.lastChild # Null /\ last.root.lastChild.flavour = "list"
  /\ last.e.p.x = MaxCoord
  /\ KindsOf("focus") # {}

\* C14 (as claimed): disposal is idempotent: the disposer returned by
\* initMouseEventHandlers is invoked by the first dispose() and not again by
\* a second one.
C14_DisposerInvokedOnce == disposeCalls <= 1

\* C15: onDoubleClick, onHover and onHoverExit are no-ops in every reachable
\* state, a drag in progress included: they leave mode, anchorPoint and
\* anchorRange as they were, emit nothing on the rectangle channel, apply no
\* native selection, place no caret and raise no fault.
C15_NoOpStep ==
  last'.op \in {"dblClick", "mouseMove", "mouseOut"} =>
    /\ type' = type
    /\ startRange' = startRange /\ startPoint' = startPoint
    /\ effects' = <<>> /\ ~fault' /\ ~last'.asked
    /\ lastRect' = lastRect /\ rectLog' = rectLog

C15_NoOpsChangeNothing == [][C15_NoOpStep]_vars

C15_Witness ==
  /\ last.op = "mouseOut" /\ last.mode = "block"
  /\ type = "block" /\ startPoint # Null /\ lastRect = "rect" /\ nMoves > 0

\* C16: no anchor leaks from one drag into the next. After every onDragStart
\* of the protocol, the first and any later one alike, the anchors are exactly
\* the point and the hit-test result of that start's event; they stay so
\* while the drag lasts; and every rectangle and every text range a move of
\* the drag produces is derived from them.
C16_State ==
  /\ last.op = "dragStart" => (startPoint = last.e.p /\ startRange = last.e.hit)
  /\ dragging => startPoint = dragStart

C16_Step ==
  /\ (dragging /\ dragging') => (startPoint' = startPoint /\ startRange' = startRange)
  /\ (last'.op = "dragMove" /\ type = "block" /\ ~fault') =>
       effects' = <<[kind |-> "rect", val |-> createSelectionRect(last'.e.p, dragStart)]>>
  /\ (last'.op = "dragMove" /\ type = "native" /\ ~fault' /\ last'.e.hit # Null) =>
       /\ Len(effects') = 1 /\ effects'[1].kind = "select"
       /\ effects'[1].val.startContainer = startRange.startContainer
       /\ effects'[1].val.startOffset = startRange.startOffset

C16_NoAnchorLeak == [](C16_State) /\ [][C16_Step]_vars

\* A move of a content drag that follows a finished blank-area drag.
C16_Witness ==
  /\ dragging /\ drag = "content" /\ last.op = "dragMove" /\ ~fault
  /\ lastRect = "null"
  /\ last.e.hit # Null /\ effects[1].val.startOffset = MaxOffset

\* C17: every onDragStart, whichever mode it chooses, records anchorPoint and
\* anchorRange together from its event; the anchors then stay fixed until the
\* drag ends: no onDragMove (and no other callback but a start or an end)
\* changes them; and anchorRange is never set while anchorPoint is null.
C17_State ==
  /\ startPoint = Null => startRange = Null
  /\ last.op = "dragStart" =>
       /\ captures # <<>>
       /\ type \in {"block", "native"}
       /\ startPoint = last.e.p /\ startRange = last.e.hit

C17_Step ==
  last'.op \notin {"dragStart", "dragEnd"} => (startPoint' = startPoint /\ startRange' = startRange)

C17_AnchorsFixedDuringDrag == [](C17_State) /\ [][C17_Step]_vars

C17_Witness ==
  /\ last.op = "dragMove" /\ last.mode = "native" /\ ~fault
  /\ last.e.hit # Null /\ startRange # Null /\ last.e.hit # startRange
  /\ startPoint # last.e.p

\* C18 (as claimed): in native mode, with the anchor range captured at the
\* start, every onDragMove applies exactly one native selection: when the
\* current position resolves, the range that starts at the anchor's container
\* and offset and ends at the current position; when it does not, null.
C18_NativeMoveSelectsFromAnchor ==
  (last.op = "dragMove" /\ last.mode = "native" /\ startRange # Null) =>
    LET hit == last.e.hit
    IN /\ ~fault
       /\ Len(effects) = 1 /\ effects[1].kind = "select"
       /\ hit = Null => effects[1].val = Null
       /\ hit # Null =>
            effects[1].val = MkRange(startRange.startContainer, startRange.startOffset, hit.endContainer, hit.endOffset)

\* C19: in every state reachable by any sequence of callbacks, mode block
\* implies a non-null anchorPoint, so the assertExists of the block move
\* never fails: a move that arrives in mode block raises no fault and emits
\* its rectangle.
C19_BlockHasAnchorPoint ==
  /\ type = "block" => startPoint # Null
  /\ (last.op = "dragMove" /\ last.mode = "block") => (~fault /\ last.anchored /\ KindsOf("rect") = {1})

C19_Witness ==
  /\ last.op = "dragMove" /\ last.mode = "block" /\ type = "block"
  /\ nMoves = 2 /\ lastRect = "rect"
  /\ startPoint # Null /\ startPoint # last.e.p

\* The overlay is not displayed while the mode is none: the last value on
\* the rectangle channel, if there is one, is null.
C20_State == type = "none" => lastRect \in {"never", "null"}

====
